---- MODULE Spec2Model ----
(***************************************************************************)
(* Model of installer/linux/syndro-nautilus.py: the Nautilus extension     *)
(* that resolves the syndro executable (_get_syndro_path) and starts it    *)
(* detached with the selected files as arguments (_send_with_syndro).      *)
(*                                                                         *)
(* The handler runs synchronously on the file manager's UI thread, so      *)
(* handler invocations follow one another; what interleaves with a         *)
(* handler is the environment: the filesystem may change between the       *)
(* resolution check and the spawn, a started child may exit and the host   *)
(* may terminate.  The locals of the handler (files, file_paths,           *)
(* syndro_path) keep the values of the most recent invocation.             *)
(***************************************************************************)
EXTENDS Naturals, Sequences, FiniteSets, TLC

VARIABLES
    fs,             \* filesystem: status of every candidate path
    host,           \* the file manager process: "alive" | "dead"
    pc,             \* position of the handler: "idle" | "resolved"
    files,          \* argument `files` of the most recent invocation
    file_paths,     \* local `file_paths` of the most recent invocation
    syndro_path,    \* local `syndro_path` of the most recent invocation
    popen_calls,    \* subprocess.Popen calls made by the most recent invocation
    stdout,         \* lines printed by the most recent invocation
    raised,         \* exception that left the most recent invocation, or NoExc
    child,          \* process started by the most recent invocation
    nonEmptyCalls,  \* invocations so far whose file_paths was non-empty
    popens          \* subprocess.Popen calls so far, over all invocations

vars == << fs, host, pc, files, file_paths, syndro_path, popen_calls,
           stdout, raised, child, nonEmptyCalls, popens >>

----------------------------------------------------------------------------
(* Bounds *)

\* longest selection handed to the handler
MaxSel == 2
\* invocations with a non-empty filtered selection in one behaviour
MaxCalls == 2

----------------------------------------------------------------------------
(* Values *)

\* Python's None: GFile.get_path() of an entry that has no local path
None == "None"
\* a local that has not been assigned in the invocation
Unbound == "<unbound>"
\* no exception left the handler
NoExc == "none"
\* the home directory of the user running the file manager
Home == "/home/user"

\* entries of a selection: Nautilus.FileInfo, seen through get_location()
FileInfos ==
    { [uri |-> "file:///home/user/a.txt", path |-> "/home/user/a.txt"],
      [uri |-> "file:///home/user/b.txt", path |-> "/home/user/b.txt"],
      [uri |-> "sftp://host/c.txt",       path |-> None] }

\* selections of at most MaxSel entries; an entry is selected once
Selections ==
    UNION { { sel \in [1..n -> FileInfos] :
                \A i, j \in 1..n : sel[i] = sel[j] => i = j } : n \in 0..MaxSel }

\* file.get_location().get_path()
get_path(file) == file.path

\* os.path.expanduser: a leading "~" is replaced by the home directory
expanduser(p) ==
    IF Len(p) >= 1 /\ SubSeq(p, 1, 1) = "~"
    THEN Home \o SubSeq(p, 2, Len(p))
    ELSE p

possible_paths ==
    << "/usr/local/bin/syndro",
       "/usr/bin/syndro",
       expanduser("~/.local/bin/syndro"),
       expanduser("~/Apps/syndro/syndro") >>

----------------------------------------------------------------------------
(* The filesystem *)

\* the paths whose status the model tracks; any other path does not exist
FsPaths ==
    { "/usr/local/bin/syndro", "/usr/bin/syndro",
      "/home/user/.local/bin/syndro", "/home/user/Apps/syndro/syndro" }

\* absent, a directory (searchable), a regular file without and with x
FileStatus ==
    { [kind |-> "absent", x |-> FALSE],
      [kind |-> "dir",    x |-> TRUE],
      [kind |-> "file",   x |-> FALSE],
      [kind |-> "file",   x |-> TRUE] }

\* os.path.isfile(path)
isfile(f, path) == path \in DOMAIN f /\ f[path].kind = "file"

\* os.access(path, os.X_OK)
access_X_OK(f, path) == path \in DOMAIN f /\ f[path].x

\* the loop with the os.access test left out: any regular file is taken
RECURSIVE FirstQualifying_noAccess(_, _)
FirstQualifying_noAccess(f, i) ==
    IF i > Len(possible_paths)
    THEN "syndro"
    ELSE IF isfile(f, possible_paths[i])
         THEN possible_paths[i]
         ELSE FirstQualifying_noAccess(f, i + 1)

\* the loop of _get_syndro_path from candidate i on, and its fallback
RECURSIVE FirstQualifying(_, _)
FirstQualifying(f, i) ==
    IF i > Len(possible_paths)
    THEN "syndro"
    ELSE IF isfile(f, possible_paths[i]) /\ access_X_OK(f, possible_paths[i])
         THEN possible_paths[i]
         ELSE FirstQualifying(f, i + 1)

\* the function without its last line: a miss falls off the end and gives None
_get_syndro_path_noFallback(f) ==
    IF FirstQualifying(f, 1) = "syndro" THEN None ELSE FirstQualifying(f, 1)

_get_syndro_path(f) == FirstQualifying(f, 1)

----------------------------------------------------------------------------
(* _send_with_syndro, lines 46-53: filter the selection, resolve *)

\* the list kept across invocations instead of being created afresh
NewFilePaths_kept(prev) == prev

\* file_paths = []
NewFilePaths(prev) == << >>

\* the loop inserting at the front: the paths come out in reverse order
RECURSIVE AppendPaths_front(_, _)
AppendPaths_front(acc, sel) ==
    IF sel = << >>
    THEN acc
    ELSE LET path == get_path(Head(sel))
         IN  IF path /= None /\ path /= ""
             THEN AppendPaths_front(<< path >> \o acc, Tail(sel))
             ELSE AppendPaths_front(acc, Tail(sel))

\* the loop over `files`: append the path of every entry whose path is truthy
RECURSIVE AppendPaths(_, _)
AppendPaths(acc, sel) ==
    IF sel = << >>
    THEN acc
    ELSE LET path == get_path(Head(sel))
         IN  IF path /= None /\ path /= ""
             THEN AppendPaths(Append(acc, path), Tail(sel))
             ELSE AppendPaths(acc, Tail(sel))

\* the guard left out: the spawn is attempted whatever the list holds
ShouldLaunch_always(fp) == TRUE

\* if file_paths:
ShouldLaunch(fp) == fp /= << >>

\* the handler is entered with a selection and runs up to the Popen call
Launch(sel) ==
    /\ host = "alive"
    /\ pc = "idle"
    /\ nonEmptyCalls < MaxCalls
    /\ LET fp == AppendPaths(NewFilePaths(file_paths), sel)
       IN  /\ files' = sel
           /\ file_paths' = fp
           /\ IF ShouldLaunch(fp)
              THEN /\ syndro_path' = _get_syndro_path(fs)
                   /\ pc' = "resolved"
              ELSE /\ syndro_path' = Unbound
                   /\ pc' = "idle"
           /\ nonEmptyCalls' =
                 IF fp /= << >> THEN nonEmptyCalls + 1 ELSE nonEmptyCalls
    /\ popen_calls' = << >>
    /\ stdout' = << >>
    /\ raised' = NoExc
    /\ child' = "none"
    /\ UNCHANGED << fs, host, popens >>

----------------------------------------------------------------------------
(* _send_with_syndro, lines 54-62: spawn, catch, print *)

\* whether a command names a file by path (execvp searches PATH otherwise)
HasSlash(cmd) == \E i \in 1..Len(cmd) : SubSeq(cmd, i, i) = "/"

\* what subprocess.Popen can do with a command: "ok", or the exception raised.
\* A path must name an executable regular file; a bare name is looked up on
\* PATH, which the model leaves open; any spawn can fail for lack of resources.
PopenOutcomes(cmd, f) ==
    IF cmd = None
    THEN { "TypeError" }
    ELSE IF HasSlash(cmd)
    THEN IF isfile(f, cmd) /\ access_X_OK(f, cmd)
         THEN { "ok", "OSError" }
         ELSE IF cmd \in DOMAIN f /\ f[cmd].kind /= "absent"
              THEN { "PermissionError" }
              ELSE { "FileNotFoundError" }
    ELSE { "ok", "FileNotFoundError", "OSError" }

\* the call without start_new_session: the child stays in the host's session
PopenKwargs_sameSession ==
    [ start_new_session |-> FALSE, stdout |-> "DEVNULL", stderr |-> "DEVNULL" ]

\* the keyword arguments of the Popen call
PopenKwargs ==
    [ start_new_session |-> TRUE, stdout |-> "DEVNULL", stderr |-> "DEVNULL" ]

\* the path resolved again at the moment of the spawn
Command_reresolved(sp, f) == _get_syndro_path(f)

\* the command of the Popen call: the path resolved before the try block
Command(sp, f) == sp

\* a second Popen call after a failed one
PopenAttempts_retry(argv, res) ==
    IF res = "ok"
    THEN << [ argv |-> argv, kwargs |-> PopenKwargs, result |-> res ] >>
    ELSE << [ argv |-> argv, kwargs |-> PopenKwargs, result |-> res ],
            [ argv |-> argv, kwargs |-> PopenKwargs, result |-> res ] >>

\* the Popen calls of one pass through the try block, given the outcome
PopenAttempts(argv, res) ==
    << [ argv |-> argv, kwargs |-> PopenKwargs, result |-> res ] >>

\* except FileNotFoundError: only a missing binary is caught
Caught_onlyNotFound(exc) == exc = "FileNotFoundError"

\* except Exception: the classes the handler catches
Caught(exc) ==
    exc \in { "OSError", "FileNotFoundError", "PermissionError", "TypeError" }

\* the message printed after the try statement, on success as well
Diagnostics_always(res) == << "Syndro: Error launching: " \o res >>

\* print(f"Syndro: Error launching: {e}")
Diagnostics(res) ==
    IF res /= "ok" /\ Caught(res)
    THEN << "Syndro: Error launching: " \o res >>
    ELSE << >>

\* the state of the started process when Popen has returned
ChildAfterPopen(res) == IF res = "ok" THEN "running" ELSE "none"

Spawn ==
    /\ host = "alive"
    /\ pc = "resolved"
    /\ LET cmd == Command(syndro_path, fs)
       IN  \E res \in PopenOutcomes(cmd, fs) :
             LET attempts == PopenAttempts(<< cmd >> \o file_paths, res)
             IN  /\ popen_calls' = popen_calls \o attempts
                 /\ popens' = popens + Len(attempts)
                 /\ stdout' = stdout \o Diagnostics(res)
                 /\ raised' = IF res /= "ok" /\ ~Caught(res) THEN res ELSE NoExc
                 /\ child' = ChildAfterPopen(res)
    /\ pc' = "idle"
    /\ UNCHANGED << fs, host, files, file_paths, syndro_path, nonEmptyCalls >>

----------------------------------------------------------------------------
(* The environment *)

\* another process changes the status of one candidate path
FsChange ==
    /\ host = "alive"
    /\ \E p \in FsPaths, st \in FileStatus :
          /\ fs[p] /= st
          /\ fs' = [fs EXCEPT ![p] = st]
    /\ UNCHANGED << host, pc, files, file_paths, syndro_path, popen_calls,
                    stdout, raised, child, nonEmptyCalls, popens >>

\* the started process ends by itself
ChildExit ==
    /\ child = "running"
    /\ child' = "exited"
    /\ UNCHANGED << fs, host, pc, files, file_paths, syndro_path, popen_calls,
                    stdout, raised, nonEmptyCalls, popens >>

\* what the end of the host's session does to a process started with kwargs kw
ChildAfterHostExit(ch, kw) ==
    IF ch = "running" /\ ~kw.start_new_session
    THEN { "running", "killed" }
    ELSE { ch }

\* the file manager terminates between two invocations of the handler
HostExit ==
    /\ host = "alive"
    /\ pc = "idle"
    /\ host' = "dead"
    /\ child' \in
          IF popen_calls = << >>
          THEN { child }
          ELSE ChildAfterHostExit(child, popen_calls[Len(popen_calls)].kwargs)
    /\ UNCHANGED << fs, pc, files, file_paths, syndro_path, popen_calls,
                    stdout, raised, nonEmptyCalls, popens >>

----------------------------------------------------------------------------
(* Specification *)

Init ==
    /\ fs \in [FsPaths -> FileStatus]
    /\ host = "alive"
    /\ pc = "idle"
    /\ files = << >>
    /\ file_paths = << >>
    /\ syndro_path = Unbound
    /\ popen_calls = << >>
    /\ stdout = << >>
    /\ raised = NoExc
    /\ child = "none"
    /\ nonEmptyCalls = 0
    /\ popens = 0

Next ==
    \/ \E sel \in Selections : Launch(sel)
    \/ Spawn
    \/ FsChange
    \/ ChildExit
    \/ HostExit

Spec == Init /\ [][Next]_vars

----------------------------------------------------------------------------
(* What the properties speak of *)

\* the candidate list as the description gives it, "~" being the home directory
CandidateList ==
    << "/usr/local/bin/syndro", "/usr/bin/syndro",
       "/home/user/.local/bin/syndro", "/home/user/Apps/syndro/syndro" >>

\* a regular file the process may execute
Qualifies(f, p) == f[p].kind = "file" /\ f[p].x

\* the first candidate in list order that qualifies, else the bare name
FirstInOrder(f) ==
    LET Q == { i \in 1..Len(CandidateList) : Qualifies(f, CandidateList[i]) }
    IN  IF Q = {}
        THEN "syndro"
        ELSE CandidateList[CHOOSE i \in Q : \A j \in Q : i <= j]

\* an entry with a resolvable local path
HasLocalPath(file) == file.path /= None

\* the paths of the entries that have one, in the order of the selection
Filtered(sel) ==
    LET kept == SelectSeq(sel, HasLocalPath)
    IN  [i \in 1..Len(kept) |-> kept[i].path]

\* the handler has returned from its most recent invocation
Returned == pc = "idle"

\* the Popen calls of the most recent invocation that raised
Failures == { i \in 1..Len(popen_calls) : popen_calls[i].result /= "ok" }

----------------------------------------------------------------------------
(* Properties *)

\* C1: the resolution step yields the first candidate of the fixed list that
\* is a regular file and executable in the filesystem it looks at, skipping
\* candidates that are not regular files or not executable, and yields the
\* bare name "syndro" when no candidate qualifies.
C1_FirstQualifyingCandidate ==
    [][ (pc = "idle" /\ pc' = "resolved") => syndro_path' = FirstInOrder(fs) ]_vars

\* an unexecutable file and a directory come first, two qualifying candidates
\* follow, and the earlier of the two has been returned
C1_Witness ==
    /\ pc = "resolved"
    /\ fs[CandidateList[1]] = [kind |-> "file", x |-> FALSE]
    /\ fs[CandidateList[2]] = [kind |-> "dir", x |-> TRUE]
    /\ Qualifies(fs, CandidateList[3])
    /\ Qualifies(fs, CandidateList[4])
    /\ syndro_path = CandidateList[3]

\* C2: every Popen call has the resolved path as its command and, after the
\* command, exactly the paths of the selection's entries that have a local
\* path, in the order of the selection.
C2_ArgsAreFilteredSelection ==
    \A i \in 1..Len(popen_calls) :
        /\ popen_calls[i].argv[1] = syndro_path
        /\ Tail(popen_calls[i].argv) = Filtered(files)

\* two different local entries were selected and handed over in their order
C2_Witness ==
    /\ Len(popen_calls) = 1
    /\ Len(files) = 2
    /\ files[1].path = "/home/user/b.txt"
    /\ files[2].path = "/home/user/a.txt"
    /\ Tail(popen_calls[1].argv) = << "/home/user/b.txt", "/home/user/a.txt" >>

\* C3: no Popen call has an empty argument list, and an invocation whose
\* selection is empty or has no entry with a local path returns at once
\* with no Popen call, no message, no exception and no process.
C3_NoLaunchWithoutPaths ==
    /\ \A i \in 1..Len(popen_calls) : Len(popen_calls[i].argv) >= 2
    /\ Filtered(files) = << >> =>
          /\ Returned
          /\ popen_calls = << >>
          /\ stdout = << >>
          /\ raised = NoExc
          /\ child = "none"
          /\ popens = nonEmptyCalls

\* after an invocation that spawned, a selection whose only entry has no
\* local path has been handled
C3_Witness ==
    /\ Returned
    /\ Len(files) = 1
    /\ Filtered(files) = << >>
    /\ popens = 1

\* C4: an invocation with a non-empty filtered selection makes exactly one
\* Popen call, failed or not, whose arguments after the command are as many
\* as the filtered selection.
C4_ExactlyOnePopen ==
    /\ Len(popen_calls) <= 1
    /\ (Returned /\ Filtered(files) /= << >>) =>
          /\ Len(popen_calls) = 1
          /\ Len(popen_calls[1].argv) - 1 = Len(Filtered(files))

\* a spawn with two arguments failed and was not tried again
C4_Witness ==
    /\ Returned
    /\ Len(Filtered(files)) = 2
    /\ Len(popen_calls) = 1
    /\ popen_calls[1].result = "PermissionError"

\* C5: no exception leaves the handler, whatever the selection, the resolved
\* path and the outcome of the Popen call.
C5_NoExceptionEscapes == raised = NoExc

\* the selection held an entry without a local path, the spawn was refused
\* and the handler returned
C5_Witness ==
    /\ Returned
    /\ \E i \in 1..Len(files) : files[i].path = None
    /\ Len(popen_calls) = 1
    /\ popen_calls[1].result = "PermissionError"
    /\ raised = NoExc

\* C6: every Popen call asks for a new session and sends the child's standard
\* output and standard error to the null device; the handler has returned
\* in the very step that started the child, while the child is still running,
\* so it waits for no exit; and a running child is still running when the
\* host has terminated.
C6_Detached ==
    /\ [](\A i \in 1..Len(popen_calls) :
             /\ popen_calls[i].kwargs.start_new_session
             /\ popen_calls[i].kwargs.stdout = "DEVNULL"
             /\ popen_calls[i].kwargs.stderr = "DEVNULL")
    /\ [][ (pc = "resolved" /\ pc' = "idle" /\ popen_calls'[1].result = "ok")
              => child' = "running" ]_vars
    /\ [][ (host = "alive" /\ host' = "dead" /\ child = "running")
              => child' = "running" ]_vars

\* the host is gone, the handler had returned, the child it started runs on
C6_Witness ==
    /\ host = "dead"
    /\ Returned
    /\ Len(popen_calls) = 1
    /\ popen_calls[1].result = "ok"
    /\ child = "running"

C8_MissDeferredToSpawn ==
    /\ [](pc = "resolved" =>
             syndro_path \in { CandidateList[i] : i \in 1..Len(CandidateList) }
                                \cup { "syndro" })
    /\ [][ (nonEmptyCalls' = nonEmptyCalls + 1 /\ FirstInOrder(fs) = "syndro")
              => /\ pc' = "resolved"
                 /\ syndro_path' = "syndro"
                 /\ stdout' = << >>
                 /\ raised' = NoExc ]_vars
    /\ [][ (pc = "resolved" /\ pc' = "idle" /\ syndro_path = "syndro")
              => /\ Len(popen_calls') = 1
                 /\ popen_calls'[1].argv[1] = "syndro" ]_vars
    /\ [](\A k \in 1..Len(stdout) :
             stdout[k] = "Syndro: Error launching: FileNotFoundError"
                => \E i \in 1..Len(popen_calls) :
                      popen_calls[i].result = "FileNotFoundError")

\* no candidate was found, "syndro" was spawned and was not on the search path
C8_Witness ==
    /\ Returned
    /\ syndro_path = "syndro"
    /\ Len(popen_calls) = 1
    /\ popen_calls[1].argv[1] = "syndro"
    /\ popen_calls[1].result = "FileNotFoundError"

\* C9: when the handler has returned, it has printed one message for each
\* failed Popen call and none otherwise: a failed spawn leaves one message
\* and no process, a successful spawn and an empty filtered selection leave
\* no message; nothing is printed before the spawn.
C9_DiagnosticIffSpawnFails ==
    /\ Len(stdout) = Cardinality(Failures)
    /\ Failures /= {} => child = "none"
    /\ Filtered(files) = << >> => stdout = << >>
    /\ pc = "resolved" => stdout = << >>

\* a spawn of a qualifying candidate failed: one message, no process
C9_Witness ==
    /\ Returned
    /\ Len(popen_calls) = 1
    /\ popen_calls[1].result = "OSError"
    /\ stdout = << "Syndro: Error launching: OSError" >>
    /\ child = "none"

\* C10: the path is resolved once: it does not change while the handler is
\* between the resolution and the spawn, and when the spawn finds that the
\* resolved candidate is no longer an executable regular file, the one Popen
\* call is made with that candidate all the same, fails, and leaves one
\* message, no exception and no process, whatever the other candidates are.
C10_ResolvedOnceNoFallback ==
    /\ [][ (pc = "resolved" /\ pc' = "resolved") => syndro_path' = syndro_path ]_vars
    /\ [][ (pc = "resolved" /\ pc' = "idle"
               /\ HasSlash(syndro_path) /\ ~Qualifies(fs, syndro_path))
              => /\ Len(popen_calls') = 1
                 /\ popen_calls'[1].argv[1] = syndro_path
                 /\ popen_calls'[1].result /= "ok"
                 /\ Len(stdout') = 1
                 /\ raised' = NoExc
                 /\ child' = "none" ]_vars

\* the first candidate was resolved and then removed; the spawn failed on it
\* although the second candidate qualifies
C10_Witness ==
    /\ Returned
    /\ syndro_path = CandidateList[1]
    /\ fs[CandidateList[1]].kind = "absent"
    /\ Qualifies(fs, CandidateList[2])
    /\ Len(popen_calls) = 1
    /\ popen_calls[1].argv[1] = CandidateList[1]
    /\ popen_calls[1].result = "FileNotFoundError"
    /\ Len(stdout) = 1

====
